---- MODULE Spec2Model ----
(***************************************************************************)
(* Applicant screener (src/core_logic.py, src/app.py).                     *)
(*                                                                         *)
(* Text is modelled as a sequence of tokens.  A token is one of            *)
(*   "SEP"   the ten-dash separator "----------"                           *)
(*   "SP"    one blank, "NL" one newline                                   *)
(*   ":" ";" "," "$" "%"   the punctuation characters themselves           *)
(*   a digit run ("1", "2", "100", "42")                                   *)
(*   a word ("Question", "python", "Acme", ...)                            *)
(*   a word run ("EN25" = 25 English filler words separated by single      *)
(*   blanks, "FR25" = 25 French filler words, ...)                         *)
(* The string operations of the source (strip, split, lower, startswith,   *)
(* substring test, regular-expression search, word tokenisation) are       *)
(* computed on these sequences.                                            *)
(***************************************************************************)
EXTENDS Integers, Sequences, FiniteSets, TLC

(***************************************************************************)
(* State.                                                                  *)
(***************************************************************************)
VARIABLES
    pc,                 \* "start", "loop", "done": where process_applicants stands
    csv_columns,        \* the header of csv_file
    check_dollar, check_percent, exclude_answers,
    required_text, optional_text, related_text,
    df_columns,         \* df.columns after normalize_dataframe
    unallowed_phrases, required_list, optional_list, related_list,
    idx,                \* the number of rows the loop has taken
    row,                \* the row of the current iteration, as a dict
    gate,               \* where the current row left the loop body
    pdf_exists_count, english_count, short_answers_okay_count,
    no_unallowed_count, keywords_count, final_pass_count,
    results,
    \* a second run of process_applicants, in step with the first
    differ,             \* the argument in which the second run may differ
    twin_optional_text, twin_optional_list,
    twin_row, twin_gate,
    twin_counters,      \* the six counters of the second run, in the order of the return
    twin_results,
    \* a call of has_two_or_more_short_answers
    qa_units,           \* the question/answer units the blob is written from
    word_limit,         \* the argument min_words
    short_answers,      \* the values returned by the calls made
    \* repeated calls of normalize_dataframe
    table,              \* the data frame
    norm_calls          \* the number of calls made on it

(***************************************************************************)
(* Bounds of the model.                                                    *)
(***************************************************************************)
MaxRows == 2
MaxUnits == 3
MaxNormCalls == 2
MaxTableRows == 2

(***************************************************************************)
(* Program constants.                                                      *)
(***************************************************************************)
MinWords == 20
MinChars == 50
Threshold == 70
NoNumber == 999

(***************************************************************************)
(* Token tables.                                                           *)
(***************************************************************************)
SpaceTokens == {"SP", "NL"}
PunctTokens == {"SEP", ":", ";", ",", "$", "%"}
DigitTokens == {"1", "2", "3", "4", "7", "100", "42"}
EnglishRuns == {"EN5", "EN19", "EN20", "EN25"}
FrenchRuns == {"FR25"}

\* number of whitespace-delimited words a token stands for
WordsIn(t) ==
    CASE t = "EN5" -> 5
      [] t = "EN19" -> 19
      [] t = "EN20" -> 20
      [] t = "EN25" -> 25
      [] t = "FR25" -> 25
      [] t \in SpaceTokens -> 0
      [] OTHER -> 1

\* number of characters of a token
CharsIn(t) ==
    CASE t = "EN5" -> 24
      [] t = "EN19" -> 94
      [] t = "EN20" -> 99
      [] t = "EN25" -> 124
      [] t = "FR25" -> 124
      [] t = "SEP" -> 10
      [] t \in SpaceTokens \cup (PunctTokens \ {"SEP"}) -> 1
      [] t \in {"1", "2", "3", "4", "7"} -> 1
      [] t = "42" -> 2
      [] t = "100" -> 3
      [] t \in {"Question", "question"} -> 8
      [] t \in {"Answer", "answer", "python", "Python", "Globex"} -> 6
      [] t \in {"nan", "sql", "SQL", "Ann", "Bob"} -> 3
      [] t = "Cy" -> 2
      [] OTHER -> 4

\* str.lower() of one token
Lower(t) ==
    CASE t = "Question" -> "question"
      [] t = "Answer" -> "answer"
      [] t = "Answers" -> "answers"
      [] t = "ANSWERS" -> "answers"
      [] t = "Name" -> "name"
      [] t = "Email" -> "email"
      [] t = "Creation" -> "creation"
      [] t = "Job" -> "job"
      [] t = "Experiences" -> "experiences"
      [] t = "Resume" -> "resume"
      [] t = "My" -> "my"
      [] t = "Do" -> "do"
      [] t = "How" -> "how"
      [] t = "Check" -> "check"
      [] t = "Describe" -> "describe"
      [] t = "Why" -> "why"
      [] t = "Python" -> "python"
      [] t = "SQL" -> "sql"
      [] t = "Acme" -> "acme"
      [] t = "Corp" -> "corp"
      [] t = "Globex" -> "globex"
      [] t = "Inc" -> "inc"
      [] t = "Initech" -> "initech"
      [] t = "Hooli" -> "hooli"
      [] t = "Engineer" -> "engineer"
      [] t = "Analyst" -> "analyst"
      [] t = ".PDF" -> ".pdf"
      [] OTHER -> t

IsSpace(t) == t \in SpaceTokens
\* \w of the regular expressions: letters, digits, underscore
IsWordChars(t) == t \notin SpaceTokens \cup PunctTokens
\* \d of the regular expressions
IsDigits(t) == t \in DigitTokens

(***************************************************************************)
(* String operations on token sequences.                                   *)
(***************************************************************************)
Range(s) == {s[i] : i \in 1..Len(s)}

Min(S) == CHOOSE x \in S : \A y \in S : x <= y
Max(S) == CHOOSE x \in S : \A y \in S : x >= y
\* the k-th smallest element of a finite set of integers
Nth(S, k) == CHOOSE x \in S : Cardinality({y \in S : y < x}) = k - 1

RECURSIVE Flatten(_)
Flatten(ss) == IF ss = <<>> THEN <<>> ELSE Head(ss) \o Flatten(Tail(ss))

RECURSIVE SumSeq(_)
SumSeq(s) == IF s = <<>> THEN 0 ELSE Head(s) + SumSeq(Tail(s))

\* str.strip()
Strip(s) ==
    LET keep == {i \in 1..Len(s) : ~IsSpace(s[i])}
    IN  IF keep = {} THEN <<>> ELSE SubSeq(s, Min(keep), Max(keep))

\* str.lower()
LowerSeq(s) == [i \in 1..Len(s) |-> Lower(s[i])]

\* str.split(sep) for a one-token separator: every piece, empty ones included
SplitOn(s, sep) ==
    LET at == {i \in 1..Len(s) : s[i] = sep}
        n == Cardinality(at)
        lo(k) == IF k = 1 THEN 1 ELSE Nth(at, k - 1) + 1
        hi(k) == IF k = n + 1 THEN Len(s) ELSE Nth(at, k) - 1
    IN  [k \in 1..(n + 1) |-> SubSeq(s, lo(k), hi(k))]

\* str.split(sep, maxsplit=1)
SplitFirst(s, sep) ==
    LET at == {i \in 1..Len(s) : s[i] = sep}
    IN  IF at = {} THEN <<s>>
        ELSE <<SubSeq(s, 1, Min(at) - 1), SubSeq(s, Min(at) + 1, Len(s))>>

\* sep.join(parts)
RECURSIVE Join(_, _)
Join(parts, sep) ==
    IF parts = <<>> THEN <<>>
    ELSE IF Len(parts) = 1 THEN parts[1]
    ELSE parts[1] \o sep \o Join(Tail(parts), sep)

\* str.startswith(p)
StartsWith(s, p) == Len(s) >= Len(p) /\ SubSeq(s, 1, Len(p)) = p

\* p in s
Contains(s, p) ==
    \E i \in 1..(Len(s) - Len(p) + 1) : SubSeq(s, i, i + Len(p) - 1) = p

\* len(s)
CharLen(s) == SumSeq([i \in 1..Len(s) |-> CharsIn(s[i])])

\* len(s.split()): the number of whitespace-delimited words
WordCount(s) ==
    LET starts == {i \in 1..Len(s) :
                     ~IsSpace(s[i]) /\ (i = 1 \/ IsSpace(s[i - 1]))}
    IN  Cardinality(starts)
        + SumSeq([i \in 1..Len(s) |->
                    IF IsSpace(s[i]) THEN 0 ELSE WordsIn(s[i]) - 1])

(***************************************************************************)
(* Answer-quality heuristics.                                              *)
(* A pending question text of None and one of "" behave alike in every     *)
(* test the source makes (both are falsy), so None is modelled as <<>>.    *)
(***************************************************************************)
CheckAllThatApply == <<"check", "SP", "all", "SP", "that", "SP", "apply">>
HowMany == <<"how", "SP", "many">>
YesNoStarts == { <<"do", "SP", "you", "SP">>, <<"are", "SP", "you", "SP">>,
                 <<"have", "SP", "you", "SP">>, <<"did", "SP", "you", "SP">> }

is_ignored_question(question_text) ==
    LET q_lower == LowerSeq(question_text)
    IN  \/ Contains(q_lower, CheckAllThatApply)
        \/ \E phrase \in YesNoStarts : StartsWith(q_lower, phrase)
        \/ Contains(q_lower, HowMany)

IsQuestionLabel(label_text) == StartsWith(LowerSeq(label_text), <<"question", "SP">>)
IsAnswerLabel(label_text) == StartsWith(LowerSeq(label_text), <<"answer", "SP">>)

\* the loop of has_two_or_more_short_answers from block i on
RECURSIVE ShortScan(_, _, _, _, _)
ShortScan(blocks, i, short_count, pending_question_text, min_words) ==
    IF i > Len(blocks) THEN short_count >= 2
    ELSE
      LET block == Strip(blocks[i])
          parts == SplitFirst(block, ":")
          label_text == Strip(parts[1])
          content_text == Strip(parts[2])
          skip == ShortScan(blocks, i + 1, short_count, pending_question_text, min_words)
      IN  IF block = <<>> THEN skip
          ELSE IF Len(parts) < 2 THEN skip
          ELSE IF IsQuestionLabel(label_text)
            THEN ShortScan(blocks, i + 1, short_count, content_text, min_words)
          ELSE IF IsAnswerLabel(label_text)
            THEN IF is_ignored_question(pending_question_text) THEN skip
                 ELSE IF WordCount(content_text) < min_words
                   THEN IF short_count + 1 >= 2 THEN TRUE
                        ELSE ShortScan(blocks, i + 1, short_count + 1, <<>>, min_words)
                 ELSE ShortScan(blocks, i + 1, short_count, <<>>, min_words)
          ELSE IF is_ignored_question(label_text) THEN skip
               ELSE IF WordCount(content_text) < min_words
                 THEN IF short_count + 1 >= 2 THEN TRUE
                      ELSE ShortScan(blocks, i + 1, short_count + 1,
                                     pending_question_text, min_words)
               ELSE skip

\* has_two_or_more_short_answers with short_count starting at 1
has_one_or_more_short_answers(answers_str, min_words) ==
    ShortScan(SplitOn(answers_str, "SEP"), 1, 1, <<>>, min_words)

has_two_or_more_short_answers(answers_str, min_words) ==
    ShortScan(SplitOn(answers_str, "SEP"), 1, 0, <<>>, min_words)

\* the loop of filter_ignored_questions from block i on: the filtered lines
RECURSIVE FilterScan(_, _, _)
FilterScan(blocks, i, pending_question_text) ==
    IF i > Len(blocks) THEN <<>>
    ELSE
      LET block == Strip(blocks[i])
          parts == SplitFirst(block, ":")
          label_text == Strip(parts[1])
          content_text == Strip(parts[2])
      IN  IF block = <<>> THEN FilterScan(blocks, i + 1, pending_question_text)
          ELSE IF Len(parts) < 2 THEN FilterScan(blocks, i + 1, pending_question_text)
          ELSE IF IsQuestionLabel(label_text)
            THEN FilterScan(blocks, i + 1, content_text)
          ELSE IF IsAnswerLabel(label_text)
            THEN (IF pending_question_text # <<>>
                     /\ ~is_ignored_question(pending_question_text)
                  THEN << <<"Question", ":", "SP">> \o pending_question_text,
                          <<"Answer", ":", "SP">> \o content_text >>
                  ELSE <<>>)
                 \o FilterScan(blocks, i + 1, <<>>)
          ELSE (IF ~is_ignored_question(label_text)
                THEN << <<"Question", ":", "SP">> \o label_text,
                        <<"Answer", ":", "SP">> \o content_text >>
                ELSE <<>>)
               \o FilterScan(blocks, i + 1, pending_question_text)

filter_ignored_questions(answers_str) ==
    Join(FilterScan(SplitOn(answers_str, "SEP"), 1, <<>>), <<"NL">>)

(***************************************************************************)
(* The two lines normalize_dataframe writes for one question/answer pair,  *)
(* and the blob they are joined into.                                      *)
(***************************************************************************)
QALines(q_col, q_text, a_col, a_text) ==
    << <<"SEP", "SP">> \o q_col \o <<":", "SP">> \o q_text,
       <<"SEP", "SP">> \o a_col \o <<":", "SP">> \o a_text >>

(***************************************************************************)
(* Disallowed-employer detector.                                           *)
(***************************************************************************)
\* fortune500.csv is data outside the sources; two entries stand for it
Fortune500 == << <<"Acme", "SP", "Corp">>, <<"Globex", "SP", "Inc">> >>

load_local_fortune500_csv ==
    SelectSeq([i \in 1..Len(Fortune500) |-> Strip(Fortune500[i])], LAMBDA line : line # <<>>)

\* the first n elements of a list
FirstN(s, n) == SubSeq(s, 1, IF Len(s) < n THEN Len(s) ELSE n)

parse_experiences_lines(experience_text0) ==
    LET experience_text == Strip(experience_text0)
        pieces == SplitOn(experience_text, ";")
        parts == SelectSeq([i \in 1..Len(pieces) |-> Strip(pieces[i])],
                           LAMBDA p : p # <<>>)
        lines == SplitOn(experience_text, "NL")
        lhs(line) == Strip(SplitFirst(Strip(line), ":")[1])
        named == SelectSeq(lines, LAMBDA line :
                     /\ ":" \in Range(Strip(line))
                     /\ lhs(line) # <<>>
                     /\ CharLen(lhs(line)) > 2)
    IN  IF ";" \in Range(experience_text)
        THEN FirstN(parts, 2)
        ELSE FirstN([i \in 1..Len(named) |-> lhs(named[i])], 2)

\* re.findall(r"\w+", text): the maximal runs of word characters
RECURSIVE WordRuns(_, _, _)
WordRuns(text, i, cur) ==
    LET flush == IF cur = <<>> THEN <<>> ELSE <<cur>>
    IN  IF i > Len(text) THEN flush
        ELSE IF IsWordChars(text[i]) THEN WordRuns(text, i + 1, Append(cur, text[i]))
        ELSE flush \o WordRuns(text, i + 1, <<>>)

tokenize_to_words(text) == WordRuns(text, 1, <<>>)

phrase_in_tokens(phrase_tokens, pdf_tokens) ==
    LET n == Len(phrase_tokens)
    IN  /\ n # 0
        /\ \E i \in 0..(Len(pdf_tokens) - n) :
              SubSeq(pdf_tokens, i + 1, i + n) = phrase_tokens

\* the set of matched phrases; the count the source returns is its size
count_unallowed_matches(pdf_text, phrases) ==
    LET tokens_pdf == tokenize_to_words(LowerSeq(pdf_text))
    IN  { phrase \in Range(phrases) :
            phrase_in_tokens(tokenize_to_words(LowerSeq(phrase)), tokens_pdf) }

(***************************************************************************)
(* Keyword / symbol matcher.                                               *)
(***************************************************************************)
\* re.search(r"\$\d{1,3}(,\d{3})*(\.\d+)?", text): the groups are optional,
\* so the search succeeds exactly when a "$" is directly followed by a digit
MoneySearch(text) ==
    \E i \in 1..(Len(text) - 1) : text[i] = "$" /\ IsDigits(text[i + 1])

\* re.search(r"\d+(\.\d+)?%", text): a digit directly followed by "%"
PercentSearch(text) ==
    \E i \in 1..(Len(text) - 1) : IsDigits(text[i]) /\ text[i + 1] = "%"

Places(in_pdf, in_answers) ==
    (IF in_pdf THEN <<"pdf">> ELSE <<>>) \o (IF in_answers THEN <<"answers">> ELSE <<>>)

\* get_found_symbols looking for "%" only when "$" is looked for as well
get_found_symbols_percent_with_dollar(pdf_text, answers_text, dollar, percent) ==
    LET places(symbol) ==
            IF symbol = "$"
            THEN Places(MoneySearch(pdf_text), MoneySearch(answers_text))
            ELSE Places(PercentSearch(pdf_text), PercentSearch(answers_text))
        checked == {sy \in {"$", "%"} : \/ sy = "$" /\ dollar
                                        \/ sy = "%" /\ percent /\ dollar}
    IN  [symbol \in {sy \in checked : places(sy) # <<>>} |-> places(symbol)]

get_found_symbols(pdf_text, answers_text, dollar, percent) ==
    LET places(symbol) ==
            IF symbol = "$"
            THEN Places(MoneySearch(pdf_text), MoneySearch(answers_text))
            ELSE Places(PercentSearch(pdf_text), PercentSearch(answers_text))
        checked == {sy \in {"$", "%"} : \/ sy = "$" /\ dollar
                                        \/ sy = "%" /\ percent}
    IN  [symbol \in {sy \in checked : places(sy) # <<>>} |-> places(symbol)]

\* The similarity of the en_core_web_md vectors, in hundredths: a stand-in
\* table for the language model, which is not part of the sources.
WordSimilarity(a, b) ==
    IF a = b THEN 100
    ELSE IF {a, b} \in {{"python", "java"}, {"python", "Python"}, {"sql", "SQL"}} THEN 75
    ELSE IF {a, b} \in {{"python", "sql"}, {"java", "sql"}} THEN 40
    ELSE 0

\* token.similarity(kw_doc) for the document of a keyword line
Similarity(token, kw) ==
    IF Len(kw) = 1 THEN WordSimilarity(token, kw[1]) ELSE 0

\* any(token.similarity(kw_doc) >= threshold for token in nlp(text))
AnySimilar(text, kw, threshold) ==
    \E i \in 1..Len(text) : ~IsSpace(text[i]) /\ Similarity(text[i], kw) >= threshold

\* get_found_required_with_locations never setting missing_any
get_found_required_never_missing(pdf_text, answers_text, required, threshold) ==
    LET places(req_kw) ==
            Places(AnySimilar(pdf_text, LowerSeq(Strip(req_kw)), threshold),
                   AnySimilar(answers_text, LowerSeq(Strip(req_kw)), threshold))
        looked == {req_kw \in Range(required) : Strip(req_kw) # <<>>}
    IN  [ found_dict |-> [req_kw \in {k \in looked : places(k) # <<>>} |-> places(req_kw)],
          all_found |-> TRUE ]

get_found_required_with_locations(pdf_text, answers_text, required, threshold) ==
    LET places(req_kw) ==
            Places(AnySimilar(pdf_text, LowerSeq(Strip(req_kw)), threshold),
                   AnySimilar(answers_text, LowerSeq(Strip(req_kw)), threshold))
        looked == {req_kw \in Range(required) : Strip(req_kw) # <<>>}
    IN  [ found_dict |-> [req_kw \in {k \in looked : places(k) # <<>>} |-> places(req_kw)],
          all_found |-> ~(\E req_kw \in looked : places(req_kw) = <<>>) ]

\* get_found_optional_with_locations keyed by the lowered keyword
get_found_optional_lowered(pdf_text, answers_text, optional, threshold) ==
    LET places(opt_kw) ==
            Places(AnySimilar(pdf_text, LowerSeq(Strip(opt_kw)), threshold),
                   AnySimilar(answers_text, LowerSeq(Strip(opt_kw)), threshold))
        looked == {opt_kw \in Range(optional) : Strip(opt_kw) # <<>>}
    IN  [opt_kw \in {LowerSeq(k) : k \in {k \in looked : places(k) # <<>>}} |-> places(opt_kw)]

get_found_optional_with_locations(pdf_text, answers_text, optional, threshold) ==
    LET places(opt_kw) ==
            Places(AnySimilar(pdf_text, LowerSeq(Strip(opt_kw)), threshold),
                   AnySimilar(answers_text, LowerSeq(Strip(opt_kw)), threshold))
        looked == {opt_kw \in Range(optional) : Strip(opt_kw) # <<>>}
    IN  [opt_kw \in {k \in looked : places(k) # <<>>} |-> places(opt_kw)]

\* semantic_keyword_match matching every text when it has no keyword to look for
semantic_keyword_match_vacuous(pdf_text, answers_text, user_keywords, threshold) ==
    \/ \A j \in 1..Len(user_keywords) : Strip(user_keywords[j]) = <<>>
    \/ \E j \in 1..Len(user_keywords) :
          /\ Strip(user_keywords[j]) # <<>>
          /\ AnySimilar(pdf_text \o <<"SP">> \o answers_text,
                        Strip(user_keywords[j]), threshold)

semantic_keyword_match(pdf_text, answers_text, user_keywords, threshold) ==
    LET combined_text == pdf_text \o <<"SP">> \o answers_text
    IN  \E j \in 1..Len(user_keywords) :
          /\ Strip(user_keywords[j]) # <<>>
          /\ AnySimilar(combined_text, Strip(user_keywords[j]), threshold)

\* [kw.strip() for kw in text.split("\n") if kw.strip()]
KeywordLines(text) ==
    LET lines == SplitOn(text, "NL")
    IN  SelectSeq([i \in 1..Len(lines) |-> Strip(lines[i])], LAMBDA kw : kw # <<>>)

(***************************************************************************)
(* Language detection.                                                     *)
(***************************************************************************)
\* langdetect.detect, a stand-in: the language of the majority of the words;
\* a text with no letters raises, which is_english_text turns into False
Detect(text) ==
    LET french == SumSeq([i \in 1..Len(text) |->
                     IF text[i] \in FrenchRuns THEN WordsIn(text[i]) ELSE 0])
        english == SumSeq([i \in 1..Len(text) |->
                     IF IsWordChars(text[i]) /\ ~IsDigits(text[i]) /\ text[i] \notin FrenchRuns
                     THEN WordsIn(text[i]) ELSE 0])
    IN  IF french + english = 0 THEN "raise"
        ELSE IF french > english THEN "fr" ELSE "en"

is_english_text(text0) ==
    LET text == Strip(text0)
    IN  IF CharLen(text) < MinChars THEN FALSE ELSE Detect(text) = "en"

(***************************************************************************)
(* Schema normalizer.  A table is [columns |-> the list of column names,   *)
(* rows |-> the list of rows], a row being the list of its cells in column *)
(* order; names and cells are texts.                                       *)
(***************************************************************************)
\* rename_map, keys lowered as the comparison lowers them
RenameMap ==
    { << <<"name">>, <<"name">> >>,
      << <<"email">>, <<"email">> >>,
      << <<"creation", "SP", "time">>, <<"created_at">> >>,
      << <<"job", "SP", "title">>, <<"job">> >>,
      << <<"experiences">>, <<"experience">> >> }

\* "resume" in col.lower(), "question" / "answer" a prefix of lc: the tokens
\* of the model that contain, or start with, these letters
ResumeWords == {"resume", "resumes"}
QuestionWords == {"question", "questions"}
AnswerWords == {"answer", "answers"}

ColIndex(columns, name) == Min({i \in 1..Len(columns) : columns[i] = name})
HasColumn(columns, name) == name \in Range(columns)

\* df[name] = "" for a new column
AddColumn(df, name) ==
    [columns |-> Append(df.columns, name),
     rows |-> [r \in 1..Len(df.rows) |-> Append(df.rows[r], <<>>)]]

\* def extract_number(cname)
extract_number(cname) ==
    LET at == {i \in 1..Len(cname) : IsDigits(cname[i])}
        digits == cname[Min(at)]
    IN  IF at = {} THEN NoNumber
        ELSE CASE digits = "1" -> 1 [] digits = "2" -> 2 [] digits = "3" -> 3
               [] digits = "4" -> 4 [] digits = "7" -> 7
               [] digits = "42" -> 42 [] digits = "100" -> 100

\* list.sort(key=extract_number): stable
SortByNumber(names) ==
    LET before(i, j) == \/ extract_number(names[i]) < extract_number(names[j])
                        \/ extract_number(names[i]) = extract_number(names[j]) /\ i < j
        at(k) == CHOOSE i \in 1..Len(names) :
                    Cardinality({j \in 1..Len(names) : before(j, i)}) = k - 1
    IN  [k \in 1..Len(names) |-> names[at(k)]]

\* lines 64-67: df.columns = [c.strip() for c in old_cols]
StripColumns(df) ==
    [df EXCEPT !.columns = [i \in 1..Len(df.columns) |-> Strip(df.columns[i])]]

\* lines 69-71
EnsureId(df) ==
    IF HasColumn(df.columns, <<"id">>) THEN df ELSE AddColumn(df, <<"id">>)

\* lines 73-87 on one column name
RenameKnown(c) ==
    LET hit == {m \in RenameMap : LowerSeq(c) = m[1]}
    IN  IF hit = {} THEN c ELSE (CHOOSE m \in hit : TRUE)[2]

\* lines 89-93 on one column name
RenameResume(c) ==
    IF (\E i \in 1..Len(c) : Lower(c[i]) \in ResumeWords) /\ LowerSeq(c) # <<"download">>
    THEN <<"download">> ELSE c

\* lines 95-99 on one column name
RenameAnswers(c) ==
    IF LowerSeq(c) = <<"answers">> /\ c # <<"answers">> THEN <<"answers">> ELSE c

\* lines 73-99
RenameColumns(df) ==
    [df EXCEPT !.columns = [i \in 1..Len(df.columns) |->
                              RenameAnswers(RenameResume(RenameKnown(df.columns[i])))]]

IsQuestionColumn(c) ==
    /\ c # <<>>
    /\ Lower(c[1]) \in QuestionWords
    /\ LowerSeq(c) # <<"answers">>
IsAnswerColumn(c) ==
    /\ ~IsQuestionColumn(c)
    /\ c # <<>>
    /\ Lower(c[1]) \in AnswerWords
    /\ LowerSeq(c) # <<"answers">>

\* lines 128-149 for one row: the new value of its answers cell
MergedAnswers(columns, row_data, question_cols, answer_cols) ==
    LET nq == Len(question_cols)
        na == Len(answer_cols)
        max_len == IF nq > na THEN nq ELSE na
        q_text(i) == IF i <= nq
                     THEN Strip(row_data[ColIndex(columns, question_cols[i])]) ELSE <<>>
        a_text(i) == IF i <= na
                     THEN Strip(row_data[ColIndex(columns, answer_cols[i])]) ELSE <<>>
        q_name(i) == IF i <= nq THEN question_cols[i] ELSE <<"Question">>
        a_name(i) == IF i <= na THEN answer_cols[i] ELSE <<"Answer">>
        lines == Flatten([i \in 1..max_len |->
                    IF q_text(i) # <<>> \/ a_text(i) # <<>>
                    THEN QALines(q_name(i), q_text(i), a_name(i), a_text(i))
                    ELSE <<>>])
        combined_qa == Strip(Join(lines, <<"NL">>))
        existing_answers == row_data[ColIndex(columns, <<"answers">>)]
    IN  IF combined_qa = <<>> THEN existing_answers
        ELSE IF existing_answers # <<>>
          THEN existing_answers \o <<"NL">> \o combined_qa
          ELSE combined_qa

\* lines 123-125
EnsureAnswers(df) ==
    IF HasColumn(df.columns, <<"answers">>) THEN df ELSE AddColumn(df, <<"answers">>)

\* MergeAndDrop without the drop of lines 151-155
MergeAndKeep(df, question_cols, answer_cols) ==
    [df EXCEPT !.rows = [r \in 1..Len(df.rows) |->
        [df.rows[r] EXCEPT ![ColIndex(df.columns, <<"answers">>)] =
            MergedAnswers(df.columns, df.rows[r], question_cols, answer_cols)]]]

\* lines 127-155: merge the question and answer columns into answers, drop them
MergeAndDrop(df, question_cols, answer_cols) ==
    LET cols == df.columns
        cols_to_drop == Range(question_cols) \cup Range(answer_cols)
        kept == {i \in 1..Len(cols) : cols[i] \notin cols_to_drop}
        merged(r) == [df.rows[r] EXCEPT ![ColIndex(cols, <<"answers">>)] =
                        MergedAnswers(cols, df.rows[r], question_cols, answer_cols)]
    IN  [columns |-> [k \in 1..Cardinality(kept) |-> cols[Nth(kept, k)]],
         rows |-> [r \in 1..Len(df.rows) |->
                     [k \in 1..Cardinality(kept) |-> merged(r)[Nth(kept, k)]]]]

\* lines 103-155
MergeQuestionsAnswers(df) ==
    MergeAndDrop(EnsureAnswers(df),
                 SortByNumber(SelectSeq(df.columns, IsQuestionColumn)),
                 SortByNumber(SelectSeq(df.columns, IsAnswerColumn)))

normalize_dataframe(df0) ==
    MergeQuestionsAnswers(RenameColumns(EnsureId(StripColumns(df0))))

(***************************************************************************)
(* Document text extractor and the resume folder.                          *)
(* A file is [ext, readable, pages]: its extension as written, whether the *)
(* reader opens it, and the text of its pages (one page for a .docx).      *)
(***************************************************************************)
Txt(parts) == Join(parts, <<"SP">>)
wEnglish == <<"EN25">>
wFrench == <<"FR25">>
wPython == <<"python">>
wJava == <<"java">>
wSql == <<"sql">>
wMoney == <<"$", "100">>
wPercent == <<"42", "%">>
wAcme == <<"Acme", "SP", "Corp">>
wGlobex == <<"globex", "SP", "inc">>

File(ext, readable, pages) == [ext |-> ext, readable |-> readable, pages |-> pages]

ResumeFolder ==
    ( <<"cv_full.pdf">> :> File(".pdf", TRUE, <<Txt(<<wEnglish, wPython>>),
                                                Txt(<<wSql, wMoney, wPercent>>)>>) )
    @@ ( <<"cv_nomoney.pdf">> :> File(".pdf", TRUE, <<Txt(<<wEnglish, wPython, wSql, wPercent>>)>>) )
    @@ ( <<"cv_nopercent.PDF">> :> File(".PDF", TRUE, <<Txt(<<wEnglish, wPython, wSql, wMoney>>)>>) )
    @@ ( <<"cv_java.docx">> :> File(".docx", TRUE, <<Txt(<<wEnglish, wJava, wMoney, wPercent>>)>>) )
    @@ ( <<"cv_nokw.pdf">> :> File(".pdf", TRUE, <<Txt(<<wEnglish, wMoney, wPercent>>)>>) )
    @@ ( <<"cv_acme.pdf">> :> File(".pdf", TRUE, <<Txt(<<wEnglish, wPython, wSql, wMoney,
                                                        wPercent, wAcme>>)>>) )
    @@ ( <<"cv_f500.pdf">> :> File(".pdf", TRUE, <<Txt(<<wEnglish, wPython, wSql, wMoney,
                                                        wPercent, wAcme, wGlobex>>)>>) )
    @@ ( <<"cv_french.pdf">> :> File(".pdf", TRUE, <<Txt(<<wFrench, wPython, wSql, wMoney,
                                                          wPercent>>)>>) )
    @@ ( <<"cv_short.pdf">> :> File(".pdf", TRUE, <<Txt(<<wPython, wSql, wMoney, wPercent>>)>>) )
    @@ ( <<"cv_broken.pdf">> :> File(".pdf", FALSE, <<>>) )
    @@ ( <<"cv_notes.txt">> :> File(".txt", TRUE, <<Txt(<<wEnglish, wPython, wSql, wMoney,
                                                         wPercent>>)>>) )

\* os.path.isfile(os.path.join(pdf_folder, filename))
IsFile(filename) == filename \in DOMAIN ResumeFolder

extract_pdf_text(file) ==
    IF ~file.readable THEN <<>> ELSE Join(file.pages, <<"NL">>)

extract_docx_text(file) ==
    IF ~file.readable THEN <<>> ELSE Flatten(file.pages)

(***************************************************************************)
(* Evaluation pipeline: the body of the loop of process_applicants for one *)
(* row.  gate names the statement at which the row leaves the body.        *)
(***************************************************************************)
Gates == <<"no_file", "bad_ext", "not_english", "short_answers", "unallowed",
           "symbols", "required", "related", "passed">>
GateRank(g) == CHOOSE k \in 1..Len(Gates) : Gates[k] = g
\* a row that left the body at left_at got past the statement named g
Past(left_at, g) == GateRank(left_at) > GateRank(g)

\* row.get(name, "")
RowGet(applicant, name) == IF name \in DOMAIN applicant THEN applicant[name] ELSE <<>>

\* row.to_dict() of a row of the table
RowDict(columns, cells) ==
    [name \in Range(columns) |-> cells[ColIndex(columns, name)]]

Settings(dollar, percent, exclude, required, optional, related) ==
    [check_dollar |-> dollar, check_percent |-> percent,
     exclude_answers |-> exclude, required_list |-> required,
     optional_list |-> optional, related_list |-> related]

\* DisallowedEmployer scanning the resume also when companies were parsed
DisallowedEmployerScanningToo(companies_found, file_text, phrases) ==
    \/ \E i \in 1..Len(companies_found) : companies_found[i] \in Range(phrases)
    \/ Cardinality(count_unallowed_matches(file_text, phrases)) >= 2

\* lines 313-321, companies_found being parse_experiences_lines(experience_str)
DisallowedEmployer(companies_found, file_text, phrases) ==
    IF companies_found # <<>>
    THEN \E i \in 1..Len(companies_found) : companies_found[i] \in Range(phrases)
    ELSE Cardinality(count_unallowed_matches(file_text, phrases)) >= 2

\* ResultRow copying the cells of the row stripped
ResultRowStripped(applicant, found_symbols, found_required, found_optional) ==
    ( <<"found_symbols">> :>
         [symbol \in DOMAIN found_symbols |->
             Join([i \in 1..Len(found_symbols[symbol]) |->
                     <<found_symbols[symbol][i]>>], <<",", "SP">>)]
      @@ <<"found_required">> :> found_required
      @@ <<"found_optional">> :> found_optional )
    @@ [name \in DOMAIN applicant |-> Strip(applicant[name])]

\* lines 351-360: the entry of results for a row that passed every filter
ResultRow(applicant, found_symbols, found_required, found_optional) ==
    ( <<"found_symbols">> :>
         [symbol \in DOMAIN found_symbols |->
             Join([i \in 1..Len(found_symbols[symbol]) |->
                     <<found_symbols[symbol][i]>>], <<",", "SP">>)]
      @@ <<"found_required">> :> found_required
      @@ <<"found_optional">> :> found_optional )
    @@ applicant

\* KeywordGates with the optional keywords gating as the required ones do
KeywordGatesWithOptional(applicant, s, file_text, kw_answers, found_symbols, req) ==
    IF s.check_dollar /\ "$" \notin DOMAIN found_symbols THEN [gate |-> "symbols"]
    ELSE IF s.check_percent /\ "%" \notin DOMAIN found_symbols THEN [gate |-> "symbols"]
    ELSE IF ~req.all_found THEN [gate |-> "required"]
    ELSE IF DOMAIN get_found_optional_with_locations(file_text, kw_answers,
                       s.optional_list, Threshold) # Range(s.optional_list)
      THEN [gate |-> "required"]
    ELSE IF ~semantic_keyword_match(file_text, kw_answers, s.related_list, Threshold)
      THEN [gate |-> "related"]
    ELSE [gate |-> "passed",
          row_dict |-> ResultRow(applicant, found_symbols, req.found_dict,
                          get_found_optional_with_locations(file_text, kw_answers,
                                                            s.optional_list, Threshold))]

\* lines 327-360, found_symbols and req being the values of lines 329 and 335
KeywordGates(applicant, s, file_text, kw_answers, found_symbols, req) ==
    IF s.check_dollar /\ "$" \notin DOMAIN found_symbols THEN [gate |-> "symbols"]
    ELSE IF s.check_percent /\ "%" \notin DOMAIN found_symbols THEN [gate |-> "symbols"]
    ELSE IF ~req.all_found THEN [gate |-> "required"]
    ELSE IF ~semantic_keyword_match(file_text, kw_answers, s.related_list, Threshold)
      THEN [gate |-> "related"]
    ELSE [gate |-> "passed",
          row_dict |-> ResultRow(applicant, found_symbols, req.found_dict,
                          get_found_optional_with_locations(file_text, kw_answers,
                                                            s.optional_list, Threshold))]

\* lines 294-360, file_text and answers_str being the values of lines 280-292
TextGates(applicant, s, phrases, file_text, answers_str) ==
    IF ~is_english_text(IF answers_str # <<>>
                        THEN file_text \o <<"SP">> \o answers_str ELSE file_text)
      THEN [gate |-> "not_english"]
    ELSE IF ~s.exclude_answers /\ has_two_or_more_short_answers(answers_str, MinWords)
      THEN [gate |-> "short_answers"]
    ELSE IF DisallowedEmployer(
                parse_experiences_lines(Strip(RowGet(applicant, <<"experience">>))),
                file_text, phrases)
      THEN [gate |-> "unallowed"]
    ELSE KeywordGates(applicant, s, file_text,
                      IF ~s.exclude_answers THEN answers_str ELSE <<>>,
                      get_found_symbols(IF s.exclude_answers THEN file_text
                                        ELSE file_text \o <<"SP">> \o answers_str,
                                        <<>>, s.check_dollar, s.check_percent),
                      get_found_required_with_locations(file_text,
                          IF ~s.exclude_answers THEN answers_str ELSE <<>>,
                          s.required_list, Threshold))

\* FileGates without the test of line 288: the answers are read in any case
FileGatesReadingAnswers(applicant, s, phrases, file) ==
    IF Lower(file.ext) \notin {".pdf", ".docx"} THEN [gate |-> "bad_ext"]
    ELSE TextGates(applicant, s, phrases,
                   IF Lower(file.ext) = ".pdf" THEN extract_pdf_text(file)
                   ELSE extract_docx_text(file),
                   filter_ignored_questions(RowGet(applicant, <<"answers">>)))

\* lines 279-360, file being the file of the folder that line 274 found
FileGates(applicant, s, phrases, file) ==
    IF Lower(file.ext) \notin {".pdf", ".docx"} THEN [gate |-> "bad_ext"]
    ELSE TextGates(applicant, s, phrases,
                   IF Lower(file.ext) = ".pdf" THEN extract_pdf_text(file)
                   ELSE extract_docx_text(file),
                   IF s.exclude_answers THEN <<>>
                   ELSE filter_ignored_questions(RowGet(applicant, <<"answers">>)))

\* lines 273-360: the body of the loop on one row
EvaluateRow(applicant, s, phrases) ==
    IF ~IsFile(Strip(applicant[<<"download">>])) THEN [gate |-> "no_file"]
    ELSE FileGates(applicant, s, phrases, ResumeFolder[Strip(applicant[<<"download">>])])

(***************************************************************************)
(* Inputs of the model: headers and rows of the CSV file, settings.        *)
(***************************************************************************)
qDescribe == <<"Describe", "SP", "work">>
qWhy == <<"Why", ":", "SP", "explain">>
qDoYou == <<"Do", "SP", "you", "SP", "work">>
qHowMany == <<"Tell", "SP", "how", "SP", "many">>
aLong == <<"EN25">>
aEdge == <<"EN20">>
aShort == <<"EN5">>
aKeywords == Txt(<<wEnglish, wPython, wSql, wMoney, wPercent>>)
aFrench == Txt(<<wFrench, wFrench>>)

Question1 == <<"Question", "SP", "1">>
Answer1 == <<"Answer", "SP", "1">>
Question2 == <<"Question", "SP", "2">>
Answer2 == <<"Answer", "SP", "2">>

\* an answers blob as normalize_dataframe writes it for two question columns
Blob2(q1, a1, q2, a2) ==
    Join(QALines(Question1, q1, Answer1, a1) \o QALines(Question2, q2, Answer2, a2),
         <<"NL">>)

\* pandas reads an empty cell as NaN; the loop and the normalizer take str()
\* of a cell, which is "nan" for it
NaN == <<"nan">>

AnswerBlobs ==
    { NaN,
      Blob2(qDescribe, aLong, qWhy, aEdge),
      Blob2(qDescribe, aShort, qWhy, aShort),
      Blob2(qDescribe, aShort, qWhy, aLong),
      Blob2(qDoYou, aShort, qHowMany, aShort),
      Blob2(qDescribe, aKeywords, qDoYou, aShort),
      Blob2(qDescribe, aFrench, qWhy, aFrench),
      <<"SEP", "SP">> \o qDescribe \o <<":", "SP">> \o aShort
         \o <<"NL", "SEP", "SP", "Hobbies", ":", "SP">> \o aShort }

\* two "Company : Title" entries on one line, separated by a semicolon
TitledExperience ==
    wAcme \o <<"SP", ":", "SP", "Engineer", ";", "SP", "Globex", "SP", "Inc",
               "SP", ":", "SP", "Analyst">>

Experiences ==
    { NaN,
      <<"EN5">>,
      <<"Initech", ";", "SP", "Hooli">>,
      wAcme \o <<";", "SP", "Hooli">>,
      <<"Hooli", ";">> \o wAcme \o <<";", "Initech">>,
      TitledExperience,
      wAcme \o <<"SP", ":", "SP", "Engineer">>,
      <<"Initech", "SP", ":", "SP", "Engineer", "NL", "Globex", "SP", "Inc", ":", "Analyst">> }

Downloads == DOMAIN ResumeFolder \cup { <<"cv_gone.pdf">>, <<"SP", "cv_full.pdf", "NL">>, NaN }

CanonicalHeader == << <<"id">>, <<"name">>, <<"experience">>, <<"download">>, <<"answers">> >>
ExportHeader == << <<"Name", "SP">>, <<"Experiences">>, <<"Resume">>,
                   Question2, Answer2, Question1, Answer1 >>
NoResumeHeader == << <<"Name">>, <<"Experiences">>, <<"Answers">> >>
Headers == {CanonicalHeader, ExportHeader, NoResumeHeader}

BaseBlob == Blob2(qDescribe, aLong, qWhy, aEdge)
BaseExperience == <<"Initech", ";", "SP", "Hooli">>

\* experience, download and answers of the rows under the canonical header:
\* every resume with the base answers, the answers against the full resume,
\* missing and keyword-bearing answers against a resume without the keywords,
\* an unreadable and a short one, and the experiences against resumes naming
\* no, one and two listed companies
CanonicalCases ==
    ({BaseExperience} \X Downloads \X {BaseBlob})
    \cup ({BaseExperience} \X {<<"cv_full.pdf">>} \X AnswerBlobs)
    \cup ({BaseExperience}
          \X {<<"cv_nokw.pdf">>, <<"cv_broken.pdf">>, <<"cv_short.pdf">>}
          \X {NaN, Blob2(qDescribe, aKeywords, qDoYou, aShort)})
    \cup (Experiences \X {<<"cv_full.pdf">>} \X {BaseBlob})
    \cup ({NaN, <<"EN5">>, TitledExperience} \X {<<"cv_f500.pdf">>} \X {BaseBlob})
    \cup ({NaN} \X {<<"cv_acme.pdf">>} \X {BaseBlob})

\* the rows a CSV file with the given header may hold
CsvRows(header) ==
    IF header = CanonicalHeader THEN
        { << <<"7">>, <<"Ann">>, t[1], t[2], t[3] >> : t \in CanonicalCases }
    ELSE IF header = ExportHeader THEN
        { << <<"Bob">>, e, d, q2, a2, q1, a1 >> :
            e \in {BaseExperience}, d \in {<<"cv_full.pdf">>, <<"cv_nokw.pdf">>},
            q2 \in {qWhy}, a2 \in {aShort, aKeywords},
            q1 \in {qDescribe, qDoYou}, a1 \in {aShort, aLong} }
    ELSE
        { << <<"Cy">>, e, a >> : e \in {BaseExperience}, a \in {NaN, BaseBlob} }

\* required_text, optional_text and related_text of a run
KeywordTexts ==
    { << <<>>, <<>>, <<"python">> >>,
      << <<"Python">>, <<"sql", "NL", "java">>, <<"python">> >>,
      << <<"python", "NL", "SP", "NL", "sql", "SP">>, <<"SQL">>, <<"Python", "NL">> >>,
      << <<"Python">>, <<>>, <<"SP", "NL">> >> }
OptionalTexts == {kw[2] : kw \in KeywordTexts}

(***************************************************************************)
(* process_applicants.                                                     *)
(***************************************************************************)
arguments == <<csv_columns, check_dollar, check_percent, exclude_answers,
               required_text, optional_text, related_text>>
locals == <<df_columns, unallowed_phrases, required_list, optional_list, related_list>>
counters == <<pdf_exists_count, english_count, short_answers_okay_count,
              no_unallowed_count, keywords_count, final_pass_count>>
run_vars == <<pc, arguments, locals, idx, row, gate, counters, results>>
twin_vars == <<differ, twin_optional_text, twin_optional_list, twin_row, twin_gate,
               twin_counters, twin_results>>
short_vars == <<qa_units, word_limit, short_answers>>
norm_vars == <<table, norm_calls>>
vars == <<run_vars, twin_vars, short_vars, norm_vars>>

NoRow == [none |-> TRUE]

\* no second run
NoTwin ==
    /\ differ = "nothing"
    /\ twin_optional_text = <<>>
    /\ twin_optional_list = <<>>
    /\ twin_row = NoRow
    /\ twin_gate = "none"
    /\ twin_counters = <<0, 0, 0, 0, 0, 0>>
    /\ twin_results = <<>>

\* no call of has_two_or_more_short_answers
NoShort ==
    /\ qa_units = <<>>
    /\ word_limit = 0
    /\ short_answers = <<>>

\* no data frame under normalize_dataframe
NoNorm ==
    /\ table = [columns |-> <<>>, rows |-> <<>>]
    /\ norm_calls = 0

\* the arguments of a call of process_applicants
InitRun ==
    /\ pc = "start"
    /\ csv_columns \in Headers
    /\ check_dollar \in BOOLEAN
    /\ check_percent \in BOOLEAN
    /\ exclude_answers \in BOOLEAN
    /\ \E kw \in KeywordTexts :
          /\ required_text = kw[1]
          /\ optional_text = kw[2]
          /\ related_text = kw[3]
    /\ df_columns = <<>>
    /\ unallowed_phrases = <<>>
    /\ required_list = <<>>
    /\ optional_list = <<>>
    /\ related_list = <<>>
    /\ idx = 0
    /\ row = NoRow
    /\ gate = "none"
    /\ pdf_exists_count = 0
    /\ english_count = 0
    /\ short_answers_okay_count = 0
    /\ no_unallowed_count = 0
    /\ keywords_count = 0
    /\ final_pass_count = 0
    /\ results = <<>>

Init == InitRun /\ NoTwin /\ NoShort /\ NoNorm

\* lines 250-266: read and normalize the table, load the lists, zero the counters
StartRun ==
    /\ pc = "start"
    /\ pc' = "loop"
    /\ df_columns' = normalize_dataframe([columns |-> csv_columns, rows |-> <<>>]).columns
    /\ unallowed_phrases' = load_local_fortune500_csv
    /\ required_list' = KeywordLines(required_text)
    /\ optional_list' = KeywordLines(optional_text)
    /\ related_list' = KeywordLines(related_text)
    /\ UNCHANGED <<arguments, idx, row, gate, counters, results>>

Start == StartRun /\ UNCHANGED <<twin_vars, short_vars, norm_vars>>

\* NoDownloadRun with the test of line 269 placed after the count of line 277
NoDownloadRunCounting ==
    /\ pc = "loop"
    /\ idx < MaxRows
    /\ ~HasColumn(df_columns, <<"download">>)
    /\ pc' = "done"
    /\ pdf_exists_count' = pdf_exists_count + 1
    /\ UNCHANGED <<arguments, locals, idx, row, gate, english_count,
                   short_answers_okay_count, no_unallowed_count, keywords_count,
                   final_pass_count, results>>

\* lines 268-271: the table has a row but no download column
NoDownloadRun ==
    /\ pc = "loop"
    /\ idx < MaxRows
    /\ ~HasColumn(df_columns, <<"download">>)
    /\ pc' = "done"
    /\ UNCHANGED <<arguments, locals, idx, row, gate, counters, results>>

NoDownloadColumn == NoDownloadRun /\ UNCHANGED <<twin_vars, short_vars, norm_vars>>

\* Bump counting the rows that leave at the statement instead of those past it
BumpOnLeave(count, left_at, g) == IF left_at = g THEN count + 1 ELSE count

\* count += 1 of lines 277, 297, 303, 307, 325, 347 and 351: the statement is
\* reached by the rows that got past the statement named g
Bump(count, left_at, g) == IF Past(left_at, g) THEN count + 1 ELSE count

\* The row the loop sees for a CSV row: normalize_dataframe works row by row
\* (lines 128-149), so the row is normalized in a table of its own.
FirstRowDict(df) == RowDict(df.columns, df.rows[1])
NormalizedRow(header, cells) ==
    FirstRowDict(normalize_dataframe([columns |-> header, rows |-> <<cells>>]))

\* NormalizedRow on every row of the model, computed once
NormalizedRows ==
    [header \in Headers |-> [cells \in CsvRows(header) |-> NormalizedRow(header, cells)]]

AllSettings ==
    { Settings(cd, cp, ex, KeywordLines(kw[1]), KeywordLines(op), KeywordLines(kw[3])) :
        cd \in BOOLEAN, cp \in BOOLEAN, ex \in BOOLEAN,
        kw \in KeywordTexts, op \in OptionalTexts }

\* the row of the loop and what the body of the loop makes of it
Iteration(applicant, s) ==
    [row |-> applicant,
     out |-> IF <<"download">> \in DOMAIN applicant
             THEN EvaluateRow(applicant, s, load_local_fortune500_csv)
             ELSE [gate |-> "none"]]

\* Iteration on every input of the model, computed once
Evaluated ==
    [s \in AllSettings |-> [header \in Headers |-> [cells \in CsvRows(header) |->
        Iteration(NormalizedRows[header][cells], s)]]]

\* ProcessRowOn not appending a row that results already holds
ProcessRowOnce(cells) ==
    /\ pc = "loop"
    /\ idx < MaxRows
    /\ HasColumn(df_columns, <<"download">>)
    /\ unallowed_phrases = load_local_fortune500_csv
    /\ \E e \in {Evaluated[Settings(check_dollar, check_percent, exclude_answers,
                                    required_list, optional_list, related_list)]
                          [csv_columns][cells]} :
          /\ row' = e.row
          /\ gate' = e.out.gate
          /\ results' = IF e.out.gate = "passed" /\ e.out.row_dict \notin Range(results)
                        THEN Append(results, e.out.row_dict)
                        ELSE results
    /\ idx' = idx + 1
    /\ pdf_exists_count' = Bump(pdf_exists_count, gate', "no_file")
    /\ english_count' = Bump(english_count, gate', "not_english")
    /\ short_answers_okay_count' = Bump(short_answers_okay_count, gate', "short_answers")
    /\ no_unallowed_count' = Bump(no_unallowed_count, gate', "unallowed")
    /\ keywords_count' = Bump(keywords_count, gate', "related")
    /\ final_pass_count' = Bump(final_pass_count, gate', "related")
    /\ UNCHANGED <<pc, arguments, locals>>

\* lines 268-360: one iteration of the loop, on the row of the table with these cells
ProcessRowOn(cells) ==
    /\ pc = "loop"
    /\ idx < MaxRows
    /\ HasColumn(df_columns, <<"download">>)
    /\ unallowed_phrases = load_local_fortune500_csv
    /\ \E e \in {Evaluated[Settings(check_dollar, check_percent, exclude_answers,
                                    required_list, optional_list, related_list)]
                          [csv_columns][cells]} :
          /\ row' = e.row
          /\ gate' = e.out.gate
          /\ results' = IF e.out.gate = "passed" THEN Append(results, e.out.row_dict)
                        ELSE results
    /\ idx' = idx + 1
    /\ pdf_exists_count' = Bump(pdf_exists_count, gate', "no_file")
    /\ english_count' = Bump(english_count, gate', "not_english")
    /\ short_answers_okay_count' = Bump(short_answers_okay_count, gate', "short_answers")
    /\ no_unallowed_count' = Bump(no_unallowed_count, gate', "unallowed")
    /\ keywords_count' = Bump(keywords_count, gate', "related")
    /\ final_pass_count' = Bump(final_pass_count, gate', "related")
    /\ UNCHANGED <<pc, arguments, locals>>

ProcessRow ==
    /\ \E cells \in CsvRows(csv_columns) : ProcessRowOn(cells)
    /\ UNCHANGED <<twin_vars, short_vars, norm_vars>>

\* lines 362-376: the rows are exhausted; write the results and return
ReturnRun ==
    /\ pc = "loop"
    /\ pc' = "done"
    /\ UNCHANGED <<arguments, locals, idx, row, gate, counters, results>>

Return == ReturnRun /\ UNCHANGED <<twin_vars, short_vars, norm_vars>>

Next == Start \/ NoDownloadColumn \/ ProcessRow \/ Return

Spec == Init /\ [][Next]_vars

(***************************************************************************)
(* Two runs of process_applicants in step: the second run has the          *)
(* arguments of the first except the one that differ names, the answers of *)
(* the rows of csv_file or optional_text.                                  *)
(***************************************************************************)
\* two rows of the loop that are equal in every column but answers
SameButAnswers(a, b) ==
    /\ DOMAIN a = DOMAIN b
    /\ \A name \in DOMAIN a \ {<<"answers">>} : a[name] = b[name]

\* the rows of the files of the two runs
TwinBlobs ==
    { BaseBlob, Blob2(qDescribe, aKeywords, qDoYou, aShort), Blob2(qDescribe, aFrench, qWhy, aFrench) }
TwinCsvRows(header) ==
    IF header = CanonicalHeader THEN
        { cells \in CsvRows(header) :
            /\ cells[3] = BaseExperience
            /\ cells[4] \in { <<"cv_full.pdf">>, <<"cv_nokw.pdf">>, <<"cv_java.docx">>,
                               <<"cv_french.pdf">>, <<"cv_gone.pdf">> }
            /\ cells[5] \in TwinBlobs }
    ELSE IF header = ExportHeader THEN
        { cells \in CsvRows(header) : cells[6] = qDescribe /\ cells[7] = aLong }
    ELSE CsvRows(header)

\* the rows that may stand in the second file for a row of the first
TwinRows ==
    [header \in Headers |-> [cells \in TwinCsvRows(header) |->
        {other \in TwinCsvRows(header) :
            SameButAnswers(NormalizedRows[header][cells], NormalizedRows[header][other])}]]

InitTwin ==
    /\ InitRun
    /\ differ \in {"answers", "optional_text"}
    /\ twin_optional_text \in
          (IF differ = "optional_text" THEN OptionalTexts ELSE {optional_text})
    /\ twin_optional_list = <<>>
    /\ twin_row = NoRow
    /\ twin_gate = "none"
    /\ twin_counters = <<0, 0, 0, 0, 0, 0>>
    /\ twin_results = <<>>
    /\ NoShort
    /\ NoNorm

\* lines 250-266 in both runs
TwinStart ==
    /\ StartRun
    /\ twin_optional_list' = KeywordLines(twin_optional_text)
    /\ UNCHANGED <<differ, twin_optional_text, twin_row, twin_gate, twin_counters,
                   twin_results, short_vars, norm_vars>>

\* lines 268-271 in both runs
TwinNoDownloadColumn == NoDownloadRun /\ UNCHANGED <<twin_vars, short_vars, norm_vars>>

\* lines 268-360 in both runs, on the rows at the same place of the two files
TwinProcessRow ==
    /\ \E cells \in TwinCsvRows(csv_columns) :
         /\ ProcessRowOn(cells)
         /\ \E other \in (IF differ = "answers" THEN TwinRows[csv_columns][cells]
                          ELSE {cells}) :
              \E e \in {Evaluated[Settings(check_dollar, check_percent, exclude_answers,
                                           required_list, twin_optional_list,
                                           related_list)]
                                 [csv_columns][other]} :
                 /\ twin_row' = e.row
                 /\ twin_gate' = e.out.gate
                 /\ twin_results' = IF e.out.gate = "passed"
                                    THEN Append(twin_results, e.out.row_dict)
                                    ELSE twin_results
    /\ twin_counters' = << Bump(twin_counters[1], twin_gate', "no_file"),
                           Bump(twin_counters[2], twin_gate', "not_english"),
                           Bump(twin_counters[3], twin_gate', "short_answers"),
                           Bump(twin_counters[4], twin_gate', "unallowed"),
                           Bump(twin_counters[5], twin_gate', "related"),
                           Bump(twin_counters[6], twin_gate', "related") >>
    /\ UNCHANGED <<differ, twin_optional_text, twin_optional_list, short_vars, norm_vars>>

\* lines 362-376 in both runs
TwinReturn == ReturnRun /\ UNCHANGED <<twin_vars, short_vars, norm_vars>>

NextTwin == TwinStart \/ TwinNoDownloadColumn \/ TwinProcessRow \/ TwinReturn

SpecTwin == InitTwin /\ [][NextTwin]_vars

(***************************************************************************)
(* Calls of the two pure functions on their own.                           *)
(***************************************************************************)
\* no call of process_applicants
NoRun ==
    /\ pc = "idle"
    /\ csv_columns = <<>>
    /\ check_dollar = FALSE
    /\ check_percent = FALSE
    /\ exclude_answers = FALSE
    /\ required_text = <<>>
    /\ optional_text = <<>>
    /\ related_text = <<>>
    /\ df_columns = <<>>
    /\ unallowed_phrases = <<>>
    /\ required_list = <<>>
    /\ optional_list = <<>>
    /\ related_list = <<>>
    /\ idx = 0
    /\ row = NoRow
    /\ gate = "none"
    /\ pdf_exists_count = 0
    /\ english_count = 0
    /\ short_answers_okay_count = 0
    /\ no_unallowed_count = 0
    /\ keywords_count = 0
    /\ final_pass_count = 0
    /\ results = <<>>

\* the questions, answers and values of min_words of the calls
UnitQuestions == {qWhy, qDoYou, qHowMany, <<>>}
UnitAnswers == {aEdge, aShort, <<>>}
WordLimits == {0, 5, 20, 21}
QAUnits ==
    UNION { [1..n -> [question : UnitQuestions, answer : UnitAnswers]] : n \in 0..MaxUnits }

Numeral(i) == CASE i = 1 -> "1" [] i = 2 -> "2" [] i = 3 -> "3" [] i = 4 -> "4"

\* the blob lines 136-144 write for the units: "---------- Question i: ..." and
\* "---------- Answer i: ..." for each, joined by newlines
BlobOf(units) ==
    Join(Flatten([i \in 1..Len(units) |->
                    QALines(<<"Question", "SP", Numeral(i)>>, units[i].question,
                            <<"Answer", "SP", Numeral(i)>>, units[i].answer)]),
         <<"NL">>)

InitShort ==
    /\ NoRun
    /\ NoTwin
    /\ qa_units \in QAUnits
    /\ word_limit \in WordLimits
    /\ short_answers = <<>>
    /\ NoNorm

\* has_two_or_more_short_answers(answers_str, min_words)
CountShort ==
    /\ short_answers = <<>>
    /\ short_answers' = <<has_two_or_more_short_answers(BlobOf(qa_units), word_limit)>>
    /\ UNCHANGED <<run_vars, twin_vars, qa_units, word_limit, norm_vars>>

NextShort == CountShort

SpecShort == InitShort /\ [][NextShort]_vars

\* the tables normalize_dataframe is called on: the headers of the runs, one
\* with an answers column beside question and answer columns, one in capitals
MixedHeader == << <<"answers">>, Answer1, Question1 >>
UpperHeader == << <<"Email">>, <<"ANSWERS">>, <<"Creation", "SP", "time">>,
                  <<"Job", "SP", "title">>, <<"My", "SP", "Resume">> >>
NormHeaders == Headers \cup {MixedHeader, UpperHeader}

NormRows(header) ==
    IF header = CanonicalHeader THEN
        { << <<"7">>, <<"Ann">>, BaseExperience, <<"cv_full.pdf">>, a >> : a \in AnswerBlobs }
    ELSE IF header = MixedHeader THEN
        { <<a, a1, q1>> : a \in {BaseBlob, aShort}, a1 \in {aShort, NaN}, q1 \in {qWhy, NaN} }
    ELSE IF header = UpperHeader THEN
        { << <<"ann">>, a, <<"7">>, aShort, <<"cv_full.pdf">> >> : a \in {NaN, BaseBlob} }
    ELSE CsvRows(header)

RECURSIVE RowLists(_, _)
RowLists(header, n) ==
    IF n = 0 THEN {<<>>}
    ELSE RowLists(header, n - 1)
         \cup { Append(rs, r) : rs \in RowLists(header, n - 1), r \in NormRows(header) }

NormTables ==
    UNION { { [columns |-> header, rows |-> rs] : rs \in RowLists(header, MaxTableRows) } :
            header \in NormHeaders }

InitNorm ==
    /\ NoRun
    /\ NoTwin
    /\ NoShort
    /\ table \in NormTables
    /\ norm_calls = 0

\* df = normalize_dataframe(df)
Normalize ==
    /\ norm_calls < MaxNormCalls
    /\ table' = normalize_dataframe(table)
    /\ norm_calls' = norm_calls + 1
    /\ UNCHANGED <<run_vars, twin_vars, short_vars>>

NextNorm == Normalize

SpecNorm == InitNorm /\ [][NextNorm]_vars

(***************************************************************************)
(* Properties.                                                             *)
(***************************************************************************)
\* the loop has taken a row, and the row got past the statement named g
Reached(g) == gate \in Range(Gates) /\ Past(gate, g)

\* the rows the loop may take, and their download and answers cells
LoopRows == UNION { {NormalizedRows[header][cells] : cells \in CsvRows(header)} :
                    header \in Headers }
DownloadCells == {RowGet(applicant, <<"download">>) : applicant \in LoopRows}
AnswersCells == {RowGet(applicant, <<"answers">>) : applicant \in LoopRows}

\* the text the loop reads from the resume a download cell names ("" when it
\* reads none)
TextOfResume(cell) ==
    IF ~IsFile(Strip(cell)) THEN <<>>
    ELSE IF Lower(ResumeFolder[Strip(cell)].ext) = ".pdf"
      THEN extract_pdf_text(ResumeFolder[Strip(cell)])
    ELSE IF Lower(ResumeFolder[Strip(cell)].ext) = ".docx"
      THEN extract_docx_text(ResumeFolder[Strip(cell)])
    ELSE <<>>
ResumeTexts == [cell \in DownloadCells |-> TextOfResume(cell)]
ResumeText(applicant) == ResumeTexts[RowGet(applicant, <<"download">>)]

\* a keyword is found in a text: some token is similar to it at the threshold
Found(text, kw) == AnySimilar(text, LowerSeq(Strip(kw)), Threshold)

\* the keywords of the runs, and those found in each resume and each answers cell
Keywords == UNION {Range(KeywordLines(kw[1])) \cup Range(KeywordLines(kw[2])) : kw \in KeywordTexts}
FoundInResume == [cell \in DownloadCells |-> {kw \in Keywords : Found(ResumeTexts[cell], kw)}]
FoundInAnswers == [cell \in AnswersCells |-> {kw \in Keywords : Found(cell, kw)}]

\* C1: after any prefix of the rows the six counters form a funnel,
\* pdf_exists_count >= english_count >= short_answers_okay_count >=
\* no_unallowed_count >= keywords_count >= final_pass_count, and no step of
\* process_applicants decreases a counter.
C1_CounterFunnel ==
    /\ [](/\ pdf_exists_count >= english_count
          /\ english_count >= short_answers_okay_count
          /\ short_answers_okay_count >= no_unallowed_count
          /\ no_unallowed_count >= keywords_count
          /\ keywords_count >= final_pass_count)
    /\ [][/\ pdf_exists_count' >= pdf_exists_count
          /\ english_count' >= english_count
          /\ short_answers_okay_count' >= short_answers_okay_count
          /\ no_unallowed_count' >= no_unallowed_count
          /\ keywords_count' >= keywords_count
          /\ final_pass_count' >= final_pass_count]_vars

\* two rows taken, both with a resume, one rejected as not English, one passed
C1_Witness ==
    /\ idx = 2
    /\ pdf_exists_count = 2
    /\ english_count = 1
    /\ no_unallowed_count = 1
    /\ final_pass_count = 1

\* the segments of an experience field, split at the semicolons
Segments(experience_str) ==
    SelectSeq([i \in 1..Len(SplitOn(Strip(experience_str), ";")) |->
                  Strip(SplitOn(Strip(experience_str), ";")[i])],
              LAMBDA seg : seg # <<>>)
\* the company of a segment "<Company> : <Title>"
CompanyOf(seg) == Strip(SplitFirst(seg, ":")[1])
\* every segment is "<Company> : <Title>" and the company of the first or the
\* second is an entry of the disallowed list
ListedCompany(experience_str) ==
    /\ Segments(experience_str) # <<>>
    /\ \A i \in 1..Len(Segments(experience_str)) :
          /\ ":" \in Range(Segments(experience_str)[i])
          /\ CompanyOf(Segments(experience_str)[i]) # <<>>
    /\ \E i \in 1..Len(Segments(experience_str)) :
          /\ i <= 2
          /\ CompanyOf(Segments(experience_str)[i]) \in Range(unallowed_phrases)

\* C2: an applicant whose experience is made of segments "<Company> : <Title>"
\* separated by semicolons, the company of the first or second segment being
\* on the disallowed list, is rejected at the disallowed-employer stage when
\* the applicant reaches it, whatever the resume says.
C2_ListedCompanyRejected ==
    (Reached("short_answers") /\ ListedCompany(RowGet(row, <<"experience">>)))
        => gate = "unallowed"

\* the blobs of two units, both with a question that is not ignored and an
\* answer of fewer than 20 words
TwoShortBlobs ==
    { Blob2(q1, a1, q2, a2) :
        q1 \in {q \in {qDescribe, qWhy, qDoYou, qHowMany} : ~is_ignored_question(q)},
        a1 \in {a \in {aLong, aEdge, aShort, aKeywords} : WordCount(a) < MinWords},
        q2 \in {q \in {qDescribe, qWhy, qDoYou, qHowMany} : ~is_ignored_question(q)},
        a2 \in {a \in {aLong, aEdge, aShort, aKeywords} : WordCount(a) < MinWords} }

\* C3: with exclude_answers false, an applicant who reaches the
\* answer-quality stage with an answers blob of two units that are not
\* ignored and have answers of fewer than 20 words is dropped at that stage.
C3_TwoShortAnswersDropped ==
    (/\ Reached("not_english")
     /\ ~exclude_answers
     /\ RowGet(row, <<"answers">>) \in TwoShortBlobs)
        => gate = "short_answers"

\* the units of a call whose question is not ignored and whose answer has
\* fewer than min_words words
ShortUnits ==
    { i \in 1..Len(qa_units) :
        /\ ~is_ignored_question(qa_units[i].question)
        /\ WordCount(qa_units[i].answer) < word_limit }

\* C4: on a blob of "Question N: ..." / "Answer N: ..." segments,
\* has_two_or_more_short_answers returns true exactly when at least two units
\* with a question that is not ignored have an answer of fewer than min_words
\* words.
C4_TwoOrMoreShort ==
    short_answers # <<>> => (short_answers[1] <=> Cardinality(ShortUnits) >= 2)

\* a call on three units, one of them ignored, the two others short
C4_Witness ==
    /\ short_answers = <<TRUE>>
    /\ Len(qa_units) = 3
    /\ Cardinality(ShortUnits) = 2
    /\ is_ignored_question(qa_units[2].question)
    /\ WordCount(qa_units[2].answer) < word_limit

\* C5: with exclude_answers true, two runs that differ only in the answers of
\* the rows have the same six counters and pass the same applicants, and in
\* both short_answers_okay_count = english_count.
C5_AnswersNotConsulted ==
    (differ = "answers" /\ exclude_answers) =>
        /\ twin_counters = counters
        /\ (twin_gate = "passed") <=> (gate = "passed")
        /\ Len(twin_results) = Len(results)
        /\ short_answers_okay_count = english_count
        /\ twin_counters[3] = twin_counters[2]

\* a row passed in both runs, with different answers in the two files
C5_Witness ==
    /\ differ = "answers"
    /\ exclude_answers
    /\ gate = "passed"
    /\ twin_gate = "passed"
    /\ twin_row[<<"answers">>] # row[<<"answers">>]

\* some keyword of required_list is found neither in the resume of the row
\* nor, answers not being excluded, in its answers
MissesRequired(applicant) ==
    \E i \in 1..Len(required_list) :
        /\ required_list[i] \notin FoundInResume[RowGet(applicant, <<"download">>)]
        /\ \/ exclude_answers
           \/ required_list[i] \notin FoundInAnswers[RowGet(applicant, <<"answers">>)]

\* C6: a row is appended to results only if every keyword of required_list
\* is found in its resume or, answers not being excluded, in its answers; a
\* row with a keyword found in neither gets no further than the required
\* stage, and keywords_count and final_pass_count count the appended rows
\* only; an empty required_list rejects no row at this stage.
C6_RequiredKeywords ==
    /\ \A i \in 1..Len(results) : ~MissesRequired(results[i])
    /\ keywords_count = Len(results)
    /\ final_pass_count = Len(results)
    /\ (Reached("no_file") /\ MissesRequired(row)) => ~Past(gate, "required")
    /\ required_list = <<>> => gate # "required"

\* a row passed with two required keywords, one of them found only in the answers
C6_Witness ==
    /\ gate = "passed"
    /\ Len(required_list) = 2
    /\ \E i \in 1..Len(required_list) :
          required_list[i] \notin FoundInResume[row[<<"download">>]]

\* a results entry without its found_optional field
WithoutFoundOptional(row_dict) ==
    [name \in DOMAIN row_dict \ {<<"found_optional">>} |-> row_dict[name]]

\* C7: two runs that differ only in optional_text have the same six counters
\* and pass the same applicants; their results differ in found_optional only.
C7_OptionalNeverGates ==
    differ = "optional_text" =>
        /\ twin_counters = counters
        /\ (twin_gate = "passed") <=> (gate = "passed")
        /\ Len(twin_results) = Len(results)
        /\ \A i \in 1..Len(results) :
              WithoutFoundOptional(twin_results[i]) = WithoutFoundOptional(results[i])

\* a row passed in both runs, with different found_optional fields
C7_Witness ==
    /\ differ = "optional_text"
    /\ results # <<>>
    /\ twin_results # <<>>
    /\ twin_results[1][<<"found_optional">>] # results[1][<<"found_optional">>]

\* the answers the loop keeps of each answers cell
KeptAnswers == [cell \in AnswersCells |-> filter_ignored_questions(cell)]

\* the text the symbol stage searches for a row: the resume, and the answers
\* the loop keeps unless answers are excluded
SymbolText(applicant) ==
    IF exclude_answers THEN ResumeText(applicant)
    ELSE ResumeText(applicant) \o <<"SP">>
         \o KeptAnswers[RowGet(applicant, <<"answers">>)]

\* C8: a row that reaches the symbol stage gets past it exactly when the
\* dollar pattern matches the text if check_dollar is set and the percent
\* pattern matches it if check_percent is set; a pattern whose check is not
\* set has no effect.
C8_SymbolGate ==
    Reached("unallowed") =>
        (gate # "symbols" <=>
            /\ check_dollar => MoneySearch(SymbolText(row))
            /\ check_percent => PercentSearch(SymbolText(row)))

\* a row without a dollar amount got past the symbol stage, the percent check
\* being set and the dollar check not
C8_Witness ==
    /\ Reached("symbols")
    /\ ~check_dollar
    /\ check_percent
    /\ ~MoneySearch(SymbolText(row))

\* C9: in every entry of results, the keys of found_required are keywords of
\* required_list and the keys of found_optional are keywords of optional_list.
C9_DiagnosticKeys ==
    \A i \in 1..Len(results) :
        /\ DOMAIN results[i][<<"found_required">>] \subseteq Range(required_list)
        /\ DOMAIN results[i][<<"found_optional">>] \subseteq Range(optional_list)

\* an entry with required keywords found and with some, not all, optional
\* keywords found
C9_Witness ==
    /\ results # <<>>
    /\ DOMAIN results[1][<<"found_required">>] # {}
    /\ DOMAIN results[1][<<"found_optional">>] # {}
    /\ DOMAIN results[1][<<"found_optional">>] # Range(optional_list)

\* C10: normalize_dataframe applied to its own output returns it unchanged:
\* the same columns and the same cells.
C10_NormalizeIdempotent ==
    [][norm_calls >= 1 => table' = table]_vars

\* a table with question and answer columns after two calls: the columns are
\* merged into answers and dropped
C10_Witness ==
    /\ norm_calls = 2
    /\ table.columns = << <<"name">>, <<"experience">>, <<"download">>, <<"id">>,
                          <<"answers">> >>
    /\ Len(table.rows) = 2
    /\ "SEP" \in Range(table.rows[1][5])

\* C11: when the normalized table has no download column, process_applicants
\* evaluates no row: it takes none, the six counters are 0 and results is
\* empty, up to and at its return.
C11_NoDownloadHalts ==
    (pc # "start" /\ ~HasColumn(df_columns, <<"download">>)) =>
        /\ counters = <<0, 0, 0, 0, 0, 0>>
        /\ results = <<>>
        /\ idx = 0
        /\ row = NoRow
        /\ gate = "none"

\* the run of a table without a resume column has left the loop
C11_Witness ==
    /\ pc = "done"
    /\ csv_columns = NoResumeHeader
    /\ ~HasColumn(df_columns, <<"download">>)
    /\ HasColumn(df_columns, <<"answers">>)

\* C12: a row whose resume file exists with a .pdf or .docx extension and
\* whose extraction returns the empty string leaves the loop body at the
\* English stage, so that no counter after pdf_exists_count counts it, and
\* no entry of results has such a resume, whatever the answers are.
C12_ExtractionFailureSkipped ==
    /\ (Reached("bad_ext") /\ ResumeText(row) = <<>>) => gate = "not_english"
    /\ \A i \in 1..Len(results) : ResumeText(results[i]) # <<>>

\* the pattern of a symbol matches a text
SymbolMatches(symbol, text) ==
    IF symbol = "$" THEN MoneySearch(text) ELSE PercentSearch(text)

\* the answers text of a row: the answers the loop kept, none when excluded
AnswersText(applicant) ==
    IF exclude_answers THEN <<>> ELSE KeptAnswers[RowGet(applicant, <<"answers">>)]

\* C13: in every entry of results and for every symbol of its found_symbols,
\* "pdf" is listed exactly when the pattern of the symbol matches the resume
\* text and "answers" exactly when it matches the answers text.
C13_SymbolLocations ==
    \A i \in 1..Len(results) :
        \A symbol \in DOMAIN results[i][<<"found_symbols">>] :
            /\ "pdf" \in Range(results[i][<<"found_symbols">>][symbol])
                  <=> SymbolMatches(symbol, ResumeText(results[i]))
            /\ "answers" \in Range(results[i][<<"found_symbols">>][symbol])
                  <=> SymbolMatches(symbol, AnswersText(results[i]))

\* the names parse_experiences_lines returns for each experience cell
ExperienceCells == {RowGet(applicant, <<"experience">>) : applicant \in LoopRows}
ParsedNames == [cell \in ExperienceCells |-> parse_experiences_lines(Strip(cell))]

\* the words of a phrase occur, whatever the case, as consecutive words of a text
OccursIn(phrase, text) ==
    /\ tokenize_to_words(LowerSeq(phrase)) # <<>>
    /\ \E i \in 1..Len(tokenize_to_words(LowerSeq(text))) :
          \E j \in i..Len(tokenize_to_words(LowerSeq(text))) :
              SubSeq(tokenize_to_words(LowerSeq(text)), i, j)
                  = tokenize_to_words(LowerSeq(phrase))

\* the disallowed phrases that occur in each resume
PhrasesInResume ==
    [cell \in DownloadCells |->
        {phrase \in Range(load_local_fortune500_csv) : OccursIn(phrase, ResumeTexts[cell])}]

\* the verdict of the stage on parsed names and the phrases found in a resume
RejectedEmployer(names, phrases_found) ==
    IF names # <<>>
    THEN \E name \in Range(names) : name \in Range(load_local_fortune500_csv)
    ELSE Cardinality(phrases_found) >= 2

\* C14: a row that reaches the disallowed-employer stage is judged by one of
\* two strategies: when parse_experiences_lines returns names (at most two),
\* it is rejected exactly when one of them is an entry of the disallowed
\* list, whatever the resume holds; when it returns none, it is rejected
\* exactly when two or more distinct disallowed phrases occur in the resume.
C14_EmployerStrategies ==
    Reached("short_answers") =>
        /\ Len(ParsedNames[RowGet(row, <<"experience">>)]) <= 2
        /\ gate = "unallowed" <=>
              RejectedEmployer(ParsedNames[RowGet(row, <<"experience">>)],
                               PhrasesInResume[RowGet(row, <<"download">>)])

\* a first row with parsed names, none listed, and a resume naming two listed
\* companies got to results; a second row without parsed names and with a
\* resume naming one listed company got past the stage
C14_Witness ==
    /\ idx = 2
    /\ results # <<>>
    /\ Len(ParsedNames[RowGet(results[1], <<"experience">>)]) = 2
    /\ Cardinality(PhrasesInResume[RowGet(results[1], <<"download">>)]) = 2
    /\ Reached("unallowed")
    /\ ParsedNames[RowGet(row, <<"experience">>)] = <<>>
    /\ Cardinality(PhrasesInResume[RowGet(row, <<"download">>)]) = 1

\* the settings of the runs of process_applicants
RunSettings ==
    { Settings(cd, cp, ex, KeywordLines(kw[1]), KeywordLines(kw[2]), KeywordLines(kw[3])) :
        cd \in BOOLEAN, cp \in BOOLEAN, ex \in BOOLEAN, kw \in KeywordTexts }

\* what the body of the loop makes of a row taken alone, under each setting
OutcomeOf ==
    [s \in RunSettings |->
        [applicant \in {r \in LoopRows : <<"download">> \in DOMAIN r} |->
            EvaluateRow(applicant, s, load_local_fortune500_csv)]]

\* the statements of the six counters, and the counts a row adds to them
CounterGates == <<"no_file", "not_english", "short_answers", "unallowed",
                  "related", "related">>
CounterStep(left_at) ==
    [k \in 1..Len(CounterGates) |-> IF Past(left_at, CounterGates[k]) THEN 1 ELSE 0]

\* C15: rows are evaluated independently: the statement at which a row
\* leaves the loop body, the counters it increments and its entry of results
\* are those the row gets when taken alone under the settings of the run;
\* results grows only at its end, by the entry of the row when it passes.
C15_RowsIndependent ==
    [][idx' = idx + 1 =>
          /\ gate' = OutcomeOf[Settings(check_dollar, check_percent, exclude_answers,
                                         required_list, optional_list, related_list)]
                               [row'].gate
          /\ results' = IF gate' = "passed"
                        THEN Append(results,
                                 OutcomeOf[Settings(check_dollar, check_percent,
                                                    exclude_answers, required_list,
                                                    optional_list, related_list)]
                                          [row'].row_dict)
                        ELSE results
          /\ \A k \in 1..Len(CounterGates) :
                counters'[k] = counters[k] + CounterStep(gate')[k]]_vars

\* two rows passed, the same row twice: results holds both, in their order
C15_Witness ==
    /\ idx = 2
    /\ Len(results) = 2
    /\ gate = "passed"
    /\ results[1] = results[2]
    /\ final_pass_count = 2

\* the related texts of the runs without a line that is not blank
BlankTexts == {kw[3] : kw \in {t \in KeywordTexts : KeywordLines(t[3]) = <<>>}}

\* C16: when related_text has no line that is not blank, no row gets past
\* the related-keyword stage: keywords_count and final_pass_count stay 0
\* and results stays empty.
C16_NoRelatedNoPass ==
    related_text \in BlankTexts =>
        /\ keywords_count = 0
        /\ final_pass_count = 0
        /\ results = <<>>
        /\ gate # "passed"

\* a run with blank lines for related_text has taken two rows, and the last
\* was rejected at the related-keyword stage, its required keywords found
C16_Witness ==
    /\ related_text # <<>>
    /\ related_text \in BlankTexts
    /\ idx = 2
    /\ gate = "related"
    /\ required_list # <<>>
    /\ no_unallowed_count = 2

\* the diagnostic fields, and an entry of results without them
Diagnostics == {<<"found_symbols">>, <<"found_required">>, <<"found_optional">>}
ColumnsOf(row_dict) == [name \in DOMAIN row_dict \ Diagnostics |-> row_dict[name]]

====
